---- MODULE Spec2Model ----
(***************************************************************************)
(* Number Learning AI: the epsilon-greedy engine (ml_model.py), the        *)
(* storage of interactions and snapshots (storage.py) and the session      *)
(* commands that drive them (main.py).                                     *)
(*                                                                         *)
(* Numbers.  Python floats that hold probabilities (epsilon, the random    *)
(* draws, confidence) are fixed-point integers in units of 1/Scale.  The   *)
(* value predicted by the regression pipeline is an exact rational         *)
(* <<num, den>> with den > 0.                                              *)
(***************************************************************************)
EXTENDS Integers, Sequences, FiniteSets, TLC

VARIABLES
    pc,        \* where the process is: "prompt", "feedback", "exited", "api"
    model,     \* NumberLearningApp.model, the MLModel instance
    log,       \* rows of the interactions table, oldest first
    files,     \* snapshot files under models/, by path
    stats,     \* NumberLearningApp.stats (session counters)
    round      \* locals of the round in progress: number, prediction, is_exploration

vars == <<pc, model, log, files, stats, round>>

(***************************************************************************)
(* Units and bounds                                                        *)
(***************************************************************************)
Scale == 1000000
Percent == 100

Max(a, b) == IF a >= b THEN a ELSE b
Min(a, b) == IF a <= b THEN a ELSE b
Abs(a) == IF a < 0 THEN 0 - a ELSE a

\* MLModel.__init__ defaults
EpsilonStart == 400000      \* 0.4
EpsilonMin == 30000         \* 0.03
EpsilonDecay == 92          \* 0.92, in hundredths
OutputMax == 100000

\* the smallest input whose double leaves the output range
BigInput == (OutputMax \div 2) + 1

\* bounds of the exploration
MaxUpdates == 3      \* update calls explored on one engine instance
MaxLog == 2          \* rows of the interactions table
MaxCount == 2        \* update calls on one engine instance of a session
MaxSession == 2      \* rounds recorded by one process

(***************************************************************************)
(* The regression pipeline: PolynomialFeatures(3) + LinearRegression       *)
(***************************************************************************)
\* LinearRegression centres the features [1, x, x^2, x^3] and the targets
\* and takes the minimum-norm least-squares solution of the centred system.
\* With at most two distinct x values in the training data that solution
\* interpolates the mean of y at every x value, so the learned function is
\* determined by those means: a fitted pipeline is kept as the sequence of
\* <<x, mean>> by increasing x, each mean a reduced fraction, and <<>> is the
\* pipeline before any fit.
RECURSIVE GCD(_, _)
GCD(a, b) == IF b = 0 THEN a ELSE GCD(b, a % b)

\* the fraction num/den (den > 0) in lowest terms
Fraction(num, den) ==
    LET g == GCD(Abs(num), den) IN <<num \div g, den \div g>>

RECURSIVE SumY(_, _)
SumY(pairs, x) ==
    IF pairs = <<>> THEN 0
    ELSE (IF Head(pairs)[1] = x THEN Head(pairs)[2] ELSE 0) + SumY(Tail(pairs), x)

CountX(pairs, x) == Cardinality({i \in 1..Len(pairs) : pairs[i][1] = x})

DistinctX(pairs) == {pairs[i][1] : i \in 1..Len(pairs)}

RECURSIVE Sorted(_)
Sorted(S) ==
    IF S = {} THEN <<>>
    ELSE LET least == CHOOSE a \in S : \A b \in S : a <= b
         IN  <<least>> \o Sorted(S \ {least})

\* Pipeline.fit on the (x, y) pairs
Fit(pairs) ==
    LET xs == Sorted(DistinctX(pairs)) IN
    [i \in 1..Len(xs) |->
        <<xs[i], Fraction(SumY(pairs, xs[i]), CountX(pairs, xs[i]))>>]

Phi(x) == <<x, x * x, x * x * x>>
Dot(u, v) == u[1] * v[1] + u[2] * v[2] + u[3] * v[3]
Sub(u, v) == <<u[1] - v[1], u[2] - v[2], u[3] - v[3]>>

\* arithmetic of rationals <<num, den>>, den > 0
FInt(n) == <<n, 1>>
FAdd(a, b) == Fraction(a[1] * b[2] + b[1] * a[2], a[2] * b[2])
FSub(a, b) == Fraction(a[1] * b[2] - b[1] * a[2], a[2] * b[2])
FMul(a, b) == Fraction(a[1] * b[1], a[2] * b[2])
FDiv(a, b) ==
    IF b[1] > 0 THEN Fraction(a[1] * b[2], a[2] * b[1])
    ELSE Fraction(0 - a[1] * b[2], a[2] * (0 - b[1]))

\* two x values x1 < x2 with means m1, m2: the minimum-norm interpolant
\*   m1 + (m2 - m1) * d.(phi(x) - phi(x1)) / d.d,  d = phi(x2) - phi(x1)
PredictTwo(fit, x) ==
    LET x1 == fit[1][1]
        x2 == fit[2][1]
        m1 == fit[1][2]
        m2 == fit[2][2]
        d  == Sub(Phi(x2), Phi(x1))
        dd == Dot(d, d)
        dx == Dot(d, Sub(Phi(x), Phi(x1)))
    IN  Fraction(m1[1] * m2[2] * dd + (m2[1] * m1[2] - m1[1] * m2[2]) * dx,
                 m1[2] * m2[2] * dd)

\* three x values: the minimum-norm interpolant of the three means, with
\* coefficients a * d1 + b * d2 in the span of the centred feature rows
PredictThree(fit, x) ==
    LET d1 == Sub(Phi(fit[2][1]), Phi(fit[1][1]))
        d2 == Sub(Phi(fit[3][1]), Phi(fit[1][1]))
        g11 == Dot(d1, d1)
        g12 == Dot(d1, d2)
        g22 == Dot(d2, d2)
        det == FInt(g11 * g22 - g12 * g12)
        r1 == FSub(fit[2][2], fit[1][2])
        r2 == FSub(fit[3][2], fit[1][2])
        a == FDiv(FSub(FMul(FInt(g22), r1), FMul(FInt(g12), r2)), det)
        b == FDiv(FSub(FMul(FInt(g11), r2), FMul(FInt(g12), r1)), det)
        p == Sub(Phi(x), Phi(fit[1][1]))
    IN  FAdd(fit[1][2], FAdd(FMul(a, FInt(Dot(d1, p))), FMul(b, FInt(Dot(d2, p)))))

\* the term of point i in the Lagrange form of the polynomial through the
\* first n points of fit
RECURSIVE LagrangeTerm(_, _, _, _, _)
LagrangeTerm(fit, x, i, j, n) ==
    IF j > n THEN fit[i][2]
    ELSE IF j = i THEN LagrangeTerm(fit, x, i, j + 1, n)
    ELSE FMul(FDiv(FInt(x - fit[j][1]), FInt(fit[i][1] - fit[j][1])),
              LagrangeTerm(fit, x, i, j + 1, n))

\* variant of the interpolant with features of degree 2 only
Interpolate_Degree2(fit, x) ==
    FAdd(LagrangeTerm(fit, x, 1, 1, 3),
         FAdd(LagrangeTerm(fit, x, 2, 1, 3), LagrangeTerm(fit, x, 3, 1, 3)))

\* four or more x values whose means lie on one cubic: the least-squares
\* cubic has residual zero and is that cubic, the polynomial through the
\* first four points
Interpolate(fit, x) ==
    FAdd(FAdd(LagrangeTerm(fit, x, 1, 1, 4), LagrangeTerm(fit, x, 2, 1, 4)),
         FAdd(LagrangeTerm(fit, x, 3, 1, 4), LagrangeTerm(fit, x, 4, 1, 4)))

\* whether every mean of fit lies on the cubic through its first four points
OnOneCubic(fit) == \A i \in 1..Len(fit) : Interpolate(fit, fit[i][1]) = fit[i][2]

\* Pipeline.predict on one input x: the mean itself for one x value, the
\* minimum-norm interpolant for two and three; for four and more the
\* least-squares cubic, modelled where OnOneCubic holds
ModelPredict(fit, x) ==
    IF Len(fit) = 1 THEN fit[1][2]
    ELSE IF Len(fit) = 2 THEN PredictTwo(fit, x)
    ELSE IF Len(fit) = 3 THEN PredictThree(fit, x)
    ELSE Interpolate(fit, x)

\* int(round(v)) for a rational v = <<num, den>>: nearest integer, ties to even
Round(v) ==
    LET n == v[1]
        d == v[2]
        fl == n \div d                      \* floor, d > 0
        twice == 2 * (n - fl * d)
    IN  IF twice < d THEN fl
        ELSE IF twice > d THEN fl + 1
        ELSE IF fl % 2 = 0 THEN fl ELSE fl + 1

(***************************************************************************)
(* MLModel                                                                 *)
(***************************************************************************)
NoInfo == [mode |-> "none"]      \* last_prediction_info = None

\* MLModel.__init__ with its default arguments
MLModel ==
    [epsilon |-> EpsilonStart,
     epsilon_min |-> EpsilonMin,
     epsilon_decay |-> EpsilonDecay,
     output_range |-> <<1, OutputMax>>,
     fit |-> <<>>,
     is_fitted |-> FALSE,
     interaction_count |-> 0,
     positive_feedback_count |-> 0,
     last_prediction_info |-> NoInfo]

\* the lists random.choice draws from
Multipliers == {2, 3, 4, 5, 10, 20, 50}
Offsets == {10, 25, 50, 100, 200, 500, 1000}

\* One draw of every random value predict can consume:
\*   r         random.random() of the epsilon comparison
\*   strategy  random.random() of the strategy choice
\*   multiplier, offset   random.choice results
\*   factor    random.uniform(0.5, 3.0), in hundredths
\*   sign      random.random() of the add/subtract choice
\*   high      whether random.randint returns its upper or its lower end
BaseDraw ==
    [r |-> 0, strategy |-> 0, multiplier |-> 2, factor |-> 100, offset |-> 10,
     sign |-> 0, high |-> FALSE]

\* the thresholds of the strategy choice: 0.35, 0.65, 0.85, and 0.5 of the sign
Strategy1 == 350000
Strategy2 == 650000
Strategy3 == 850000
Half == 500000

StrategyDraws(multipliers, factors, offsets, highs) ==
    {[BaseDraw EXCEPT !.strategy = 0, !.multiplier = k] : k \in multipliers}
    \cup {[BaseDraw EXCEPT !.strategy = Strategy1, !.factor = f] : f \in factors}
    \cup {[BaseDraw EXCEPT !.strategy = Strategy2, !.offset = o, !.sign = g] :
             o \in offsets, g \in {0, Half}}
    \cup {[BaseDraw EXCEPT !.strategy = Strategy3, !.high = h] : h \in highs}

Draws(rs, multipliers, factors, offsets, highs) ==
    {[d EXCEPT !.r = r] :
        d \in StrategyDraws(multipliers, factors, offsets, highs), r \in rs}

\* MLModel._get_exploration_output
get_exploration_output(m, user_input, d) ==
    LET output ==
            IF d.strategy < Strategy1 THEN user_input * d.multiplier
            ELSE IF d.strategy < Strategy2 THEN (user_input * d.factor) \div Percent
            ELSE IF d.strategy < Strategy3 THEN
                IF d.sign < Half THEN user_input + d.offset
                ELSE Max(1, user_input - d.offset)
            ELSE LET min_val == Max(1, user_input \div 2)
                     max_val == Min(m.output_range[2], user_input * 50)
                 IN  IF d.high THEN max_val ELSE min_val
    IN  Max(1, Min(m.output_range[2], output))

\* whether random.randint(min_val, max_val) of the last strategy raises
\* ValueError: its range is empty
RandintRaises(m, user_input, d) ==
    /\ d.strategy >= Strategy3
    /\ Max(1, user_input \div 2) > Min(m.output_range[2], user_input * 50)

\* predicted < user_input * 0.3, for the rational predicted
BelowThreshold(predicted, user_input) ==
    10 * predicted[1] < 3 * user_input * predicted[2]

\* min(0.95, positive_feedback_count / max(10, interaction_count))
Confidence(m) ==
    Min(950000, (m.positive_feedback_count * Scale) \div Max(10, m.interaction_count))

\* variant of the exploitation branch whose fallback guard reads <= 5
ExploitOutput_UpToFive(m, user_input, predicted) ==
    IF BelowThreshold(predicted, user_input) /\ m.positive_feedback_count <= 5
    THEN [output |-> user_input * 2, reason |-> "heuristic"]
    ELSE LET rounded == Round(predicted)
             floored == IF rounded < 1 THEN Max(1, user_input) ELSE rounded
         IN  [output |-> Min(m.output_range[2], floored), reason |-> "model"]

\* the exploitation branch's output and reason
ExploitOutput(m, user_input, predicted) ==
    IF BelowThreshold(predicted, user_input) /\ m.positive_feedback_count < 5
    THEN [output |-> user_input * 2, reason |-> "heuristic"]
    ELSE LET rounded == Round(predicted)
             floored == IF rounded < 1 THEN Max(1, user_input) ELSE rounded
         IN  [output |-> Min(m.output_range[2], floored), reason |-> "model"]

\* the result of a predict call: the engine after it and the returned pair
PredictResult(m, output, was_exploration) ==
    [model |-> m, output |-> output, was_exploration |-> was_exploration]

\* variant of the exploration branch that reports the epsilon draw as the
\* exploration flag
Explore_ReportsDraw(m, user_input, d, explore) ==
    PredictResult(
        [m EXCEPT !.last_prediction_info =
            [mode |-> "exploration",
             epsilon |-> m.epsilon,
             confidence |-> 0,
             reason |-> IF explore THEN "explore" ELSE "nodata"]],
        get_exploration_output(m, user_input, d),
        explore)

\* variant of the exploration branch that stores no decision trace
Explore_NoTrace(m, user_input, d, explore) ==
    PredictResult(m, get_exploration_output(m, user_input, d), TRUE)

\* predict's exploration branch; explore is the outcome of the epsilon draw
Explore(m, user_input, d, explore) ==
    PredictResult(
        [m EXCEPT !.last_prediction_info =
            [mode |-> "exploration",
             epsilon |-> m.epsilon,
             confidence |-> 0,
             reason |-> IF explore THEN "explore" ELSE "nodata"]],
        get_exploration_output(m, user_input, d),
        TRUE)

\* variant of the exploitation branch that counts the call as an interaction
Exploit_Counts(m, user_input) ==
    LET predicted == ModelPredict(m.fit, user_input)
        res == ExploitOutput(m, user_input, predicted)
    IN  PredictResult(
            [m EXCEPT !.interaction_count = @ + 1,
                      !.last_prediction_info =
                [mode |-> "exploitation",
                 epsilon |-> m.epsilon,
                 confidence |-> Confidence(m),
                 reason |-> res.reason,
                 raw_prediction |-> predicted]],
            res.output,
            FALSE)

\* predict's exploitation branch
Exploit(m, user_input) ==
    LET predicted == ModelPredict(m.fit, user_input)
        res == ExploitOutput(m, user_input, predicted)
    IN  PredictResult(
            [m EXCEPT !.last_prediction_info =
                [mode |-> "exploitation",
                 epsilon |-> m.epsilon,
                 confidence |-> Confidence(m),
                 reason |-> res.reason,
                 raw_prediction |-> predicted]],
            res.output,
            FALSE)

\* the condition of predict's branch
TakesExploration(m, explore) == explore \/ ~m.is_fitted

\* MLModel.predict
predict(m, user_input, d) ==
    LET explore == d.r < m.epsilon IN
    IF TakesExploration(m, explore)
    THEN Explore(m, user_input, d, explore)
    ELSE Exploit(m, user_input)

\* variant of the decay that applies the floor before the multiplication
Decay_FloorFirst(m) ==
    (Max(m.epsilon_min, m.epsilon) * m.epsilon_decay) \div Percent

\* variant of the decay without the floor
Decay_NoFloor(m) == (m.epsilon * m.epsilon_decay) \div Percent

\* the decay of update's last line
Decay(m) == Max(m.epsilon_min, (m.epsilon * m.epsilon_decay) \div Percent)

\* variant of update that decays epsilon twice
update_DecaysTwice(m, user_input, expected_output, feedback_value) ==
    [m EXCEPT !.interaction_count = @ + 1,
              !.positive_feedback_count = IF feedback_value > 0 THEN @ + 1 ELSE @,
              !.epsilon = Decay([m EXCEPT !.epsilon = Decay(m)])]

\* variant of update that learns online from a positive record
update_Online(m, user_input, expected_output, feedback_value) ==
    [m EXCEPT !.interaction_count = @ + 1,
              !.positive_feedback_count = IF feedback_value > 0 THEN @ + 1 ELSE @,
              !.epsilon = Decay(m),
              !.fit = IF feedback_value > 0
                      THEN Fit(<< <<user_input, expected_output>> >>)
                      ELSE @,
              !.is_fitted = IF feedback_value > 0 THEN TRUE ELSE @]

\* MLModel.update
update(m, user_input, expected_output, feedback_value) ==
    [m EXCEPT !.interaction_count = @ + 1,
              !.positive_feedback_count = IF feedback_value > 0 THEN @ + 1 ELSE @,
              !.epsilon = Decay(m)]

\* variant of the filter that keeps the rejected records too
positive_interactions_All(interactions) ==
    SelectSeq(interactions, LAMBDA t : t[3] >= 0)

\* the text get_explanation returns when no trace is stored
NoExplanation == [text |-> "Brak informacji o ostatniej predykcji"]

\* the format :.2% of an epsilon: hundredths of a percent
FormatPercent(epsilon) == Round(<<epsilon, Scale \div 10000>>)

\* the format :.2f of a raw prediction: hundredths
FormatHundredths(v) == Round(<<v[1] * 100, v[2]>>)

\* MLModel.get_explanation: the lines of the text
get_explanation(m) ==
    IF m.last_prediction_info = NoInfo THEN NoExplanation
    ELSE IF m.last_prediction_info.mode = "exploitation"
         THEN [mode |-> m.last_prediction_info.mode,
               epsilon |-> FormatPercent(m.last_prediction_info.epsilon),
               reason |-> m.last_prediction_info.reason,
               raw_prediction |->
                   FormatHundredths(m.last_prediction_info.raw_prediction)]
         ELSE [mode |-> m.last_prediction_info.mode,
               epsilon |-> FormatPercent(m.last_prediction_info.epsilon),
               reason |-> m.last_prediction_info.reason]

\* the list comprehension of batch_retrain: the records with fb > 0
positive_interactions(interactions) ==
    SelectSeq(interactions, LAMBDA t : t[3] > 0)

\* X and y of batch_retrain, as (x, y) pairs
TrainingPairs(interactions) ==
    [i \in 1..Len(positive_interactions(interactions)) |->
        <<positive_interactions(interactions)[i][1],
          positive_interactions(interactions)[i][2]>>]

\* variant of batch_retrain that forgets the fit when nothing is left to learn
batch_retrain_ClearsOnEmpty(m, interactions) ==
    IF positive_interactions(interactions) = <<>>
    THEN [m EXCEPT !.fit = <<>>, !.is_fitted = FALSE]
    ELSE [m EXCEPT !.fit = Fit(TrainingPairs(interactions)), !.is_fitted = TRUE]

\* MLModel.batch_retrain
batch_retrain(m, interactions) ==
    IF interactions = <<>> THEN m
    ELSE IF positive_interactions(interactions) = <<>> THEN m
    ELSE [m EXCEPT !.fit = Fit(TrainingPairs(interactions)), !.is_fitted = TRUE]

(***************************************************************************)
(* DataStorage                                                             *)
(***************************************************************************)
\* the attributes of an MLModel, in the order __init__ sets them
Fields ==
    <<"epsilon", "epsilon_min", "epsilon_decay", "output_range", "fit",
      "is_fitted", "interaction_count", "positive_feedback_count",
      "last_prediction_info">>

\* variant of the dump that leaves the decision trace out of the object state
pickle_dump_NoTrace(m) ==
    [i \in 1..Len(Fields) |->
        <<Fields[i],
          IF Fields[i] = "last_prediction_info" THEN NoInfo ELSE m[Fields[i]]>>]

\* pickle.dump: the attribute/value pairs of the object, in order
pickle_dump(m) == [i \in 1..Len(Fields) |-> <<Fields[i], m[Fields[i]]>>]

\* whether pickle.load succeeds: the stream holds the whole object
Loadable(data) == Len(data) = Len(Fields)

\* pickle.load of a whole stream: the object rebuilt from its pairs
pickle_load(data) ==
    [f \in {data[i][1] : i \in 1..Len(data)} |->
        data[CHOOSE i \in 1..Len(data) : data[i][1] = f][2]]

\* file names are sequences of tokens; a name the user types may end in ".pkl"
StripPkl(model_name) ==
    IF model_name # <<>> /\ model_name[Len(model_name)] = ".pkl"
    THEN SubSeq(model_name, 1, Len(model_name) - 1)
    ELSE model_name

\* os.path.join(models_dir, name + ".pkl")
NamedPath(model_name) == <<"models">> \o StripPkl(model_name) \o <<".pkl">>

\* DataStorage.model_path
DefaultPath == <<"models", "ml_model", ".pkl">>

NoFile == [exists |-> FALSE, data |-> <<>>]

\* the names typed at the save_model and load_model prompts, and the files
\* they and the default snapshot live in
ModelNames == {<<"a">>, <<"a", ".pkl">>}
Paths == {DefaultPath} \cup {NamedPath(model_name) : model_name \in ModelNames}

\* open(path, 'wb') followed by pickle.dump(model, f)
WriteSnapshot(fs, path, m) ==
    [fs EXCEPT ![path] = [exists |-> TRUE, data |-> pickle_dump(m)]]

\* DataStorage.save_model
save_model(fs, m) == WriteSnapshot(fs, DefaultPath, m)

\* DataStorage.save_model_as
save_model_as(fs, m, model_name) == WriteSnapshot(fs, NamedPath(model_name), m)

\* variant of the load that takes whatever part of the object the file holds
LoadAt_Partial(fs, path) ==
    IF ~fs[path].exists THEN [ok |-> FALSE, model |-> MLModel]
    ELSE [ok |-> TRUE, model |-> pickle_load(fs[path].data)]

\* load_model / load_model_by_name at a path: None when the file is missing
\* or pickle.load raises
LoadAt(fs, path) ==
    IF ~fs[path].exists THEN [ok |-> FALSE, model |-> MLModel]
    ELSE IF ~Loadable(fs[path].data) THEN [ok |-> FALSE, model |-> MLModel]
    ELSE [ok |-> TRUE, model |-> pickle_load(fs[path].data)]

\* DataStorage.load_model
load_model(fs) == LoadAt(fs, DefaultPath)

\* DataStorage.load_model_by_name
load_model_by_name(fs, model_name) == LoadAt(fs, NamedPath(model_name))

\* DataStorage.delete_model
delete_model(fs) == [fs EXCEPT ![DefaultPath] = NoFile]

\* DataStorage.save_interaction: one more row (id and timestamp are the
\* row's position)
save_interaction(rows, user_input, model_output, expected_output, feedback_value, exploration) ==
    Append(rows, [user_input |-> user_input,
                  model_output |-> model_output,
                  expected_output |-> expected_output,
                  feedback_value |-> feedback_value,
                  exploration |-> exploration])

\* DataStorage.get_all_interactions; every writer stores expected_output,
\* so COALESCE returns it
get_all_interactions(rows) ==
    [i \in 1..Len(rows) |->
        <<rows[i].user_input, rows[i].expected_output, rows[i].feedback_value>>]

\* DataStorage.delete_last_interaction: the rows left
delete_last_interaction(rows) == SubSeq(rows, 1, Len(rows) - 1)

\* Statistics.update_session
update_session(st, feedback_value) ==
    [session_interactions |-> st.session_interactions + 1,
     session_positives |-> IF feedback_value > 0 THEN st.session_positives + 1
                           ELSE st.session_positives]

(***************************************************************************)
(* Engine-level runs: one MLModel instance driven through its methods      *)
(***************************************************************************)
NoRound == [number |-> 0, prediction |-> 0, is_exploration |-> FALSE]
NoStats == [session_interactions |-> 0, session_positives |-> 0]

\* an engine after n update calls, the last p of them with feedback 1.0
RECURSIVE Aged(_, _, _)
Aged(m, n, p) ==
    IF n = 0 THEN m
    ELSE Aged(update(m, 1, 1, IF n <= p THEN 1 ELSE 0), n - 1, p)

\* the engines engine-level runs start from: a new one, and one that is
\* close to the floor of epsilon and to five positive feedbacks
Ages == {<<0, 0>>, <<30, 4>>}

\* the random draws of engine-level runs: r below the floor of epsilon,
\* between the floor and the start, and above the start
EngineDraws == Draws({0, 100000, 999999}, {50}, {50}, {1000}, BOOLEAN)

\* inputs and expected outputs handed to update
TrainInputs == {1, 2}
TrainOutputs == {1, OutputMax}

\* the lists handed to batch_retrain, (user_input, expected_output,
\* feedback_value): empty, without a positive record, one positive record,
\* a falling and a rising pair, and positive records mixed with rejected ones
TrainLists ==
    {<<>>,
     <<(<<1, 1, 0>>)>>,
     <<(<<1, 1, 1>>)>>,
     <<(<<1, OutputMax, 1>>), (<<2, 1, 1>>)>>,
     <<(<<1, 1, 1>>), (<<2, OutputMax, 1>>)>>,
     <<(<<1, 1, 1>>), (<<2, OutputMax, 0>>)>>,
     <<(<<2, 1, 0>>), (<<1, OutputMax, 1>>)>>}

\* inputs of predict: the cubic's value at BigInput is computed for constant
\* fits only, where it needs no power of the input
PredictInputs(m) ==
    {1, 2, 3} \cup (IF Len(m.fit) <= 1 THEN {BigInput} ELSE {})

EngineInit ==
    /\ pc = "api"
    /\ model \in {Aged(MLModel, a[1], a[2]) : a \in Ages}
    /\ log = <<>>
    /\ files = [path \in Paths |-> NoFile]
    /\ stats = NoStats
    /\ round = NoRound

EnginePredict ==
    \E user_input \in PredictInputs(model), d \in EngineDraws :
        LET res == predict(model, user_input, d) IN
        /\ pc = "api"
        /\ model' = res.model
        /\ round' = [number |-> user_input, prediction |-> res.output,
                     is_exploration |-> res.was_exploration]
        /\ UNCHANGED <<pc, log, files, stats>>

EngineUpdate ==
    \E user_input \in TrainInputs, expected_output \in TrainOutputs,
       feedback_value \in {0, 1} :
        /\ pc = "api"
        /\ \E a \in Ages : a[1] <= model.interaction_count
                           /\ model.interaction_count < a[1] + MaxUpdates
        /\ model' = update(model, user_input, expected_output, feedback_value)
        /\ UNCHANGED <<pc, log, files, stats, round>>

EngineBatchRetrain ==
    \E interactions \in TrainLists :
        /\ pc = "api"
        /\ model' = batch_retrain(model, interactions)
        /\ UNCHANGED <<pc, log, files, stats, round>>

EngineNext == EnginePredict \/ EngineUpdate \/ EngineBatchRetrain

SpecEngine == EngineInit /\ [][EngineNext]_vars

\* update calls on engines built with other parameters: (epsilon_start,
\* epsilon_min, epsilon_decay) with epsilon_decay < 1 and
\* epsilon_start > epsilon_min > 0
DecayParams ==
    {<<EpsilonStart, EpsilonMin, EpsilonDecay>>,
     <<EpsilonStart, EpsilonMin, 50>>,
     <<900000, 100000, 95>>}

\* update calls explored on one such engine
MaxDecayUpdates == 45

DecayInit ==
    /\ pc = "api"
    /\ model \in {[MLModel EXCEPT !.epsilon = p[1], !.epsilon_min = p[2],
                                  !.epsilon_decay = p[3]] : p \in DecayParams}
    /\ log = <<>>
    /\ files = [path \in Paths |-> NoFile]
    /\ stats = NoStats
    /\ round = NoRound

DecayUpdate ==
    \E feedback_value \in {0, 1} :
        /\ pc = "api"
        /\ model.interaction_count < MaxDecayUpdates
        /\ model' = update(model, 1, 1, feedback_value)
        /\ UNCHANGED <<pc, log, files, stats, round>>

\* the caller keeps calling update
SpecDecay == DecayInit /\ [][DecayUpdate]_vars /\ WF_vars(DecayUpdate)

\* calls of _get_exploration_output alone, over small, middle and large
\* inputs and every strategy; pc tells whether the last call raised
GeneratorInputs ==
    {1, 2, 3, 10, 999, 1000, 2000, 2001, BigInput, OutputMax,
     2 * OutputMax + 1, 2 * OutputMax + 2, 3 * OutputMax}
GeneratorDraws == Draws({0}, Multipliers, {50, 100, 300}, Offsets, BOOLEAN)

GeneratorInit ==
    /\ pc = "api"
    /\ model = MLModel
    /\ log = <<>>
    /\ files = [path \in Paths |-> NoFile]
    /\ stats = NoStats
    /\ round = NoRound

GeneratorCall ==
    \E user_input \in GeneratorInputs, d \in GeneratorDraws :
        /\ pc \in {"api", "raised"}
        /\ IF RandintRaises(model, user_input, d)
           THEN /\ pc' = "raised"
                /\ round' = [number |-> user_input, prediction |-> 0,
                             is_exploration |-> TRUE]
           ELSE /\ pc' = "api"
                /\ round' = [number |-> user_input,
                             prediction |-> get_exploration_output(model, user_input, d),
                             is_exploration |-> TRUE]
        /\ UNCHANGED <<model, log, files, stats>>

SpecGenerator == GeneratorInit /\ [][GeneratorCall]_vars

\* The fit on records that are exact samples of a polynomial: the table is
\* filled with liked records (x, p(x)) and batch_retrain runs on it, as in
\* _retrain_model; the fitted function is then evaluated and rounded.
\* A polynomial is its coefficients <<a0, a1, a2, a3>>.
Polynomials ==
    {<<0, 2, 0, 0>>, <<1, 2, 0, 0>>, <<5, 0, 0, 0>>, <<0, 0, 1, 0>>,
     <<3, 1, 1, 0>>, <<0, 0, 0, 1>>, <<2, 0, 1, 1>>}
SampleInputs ==
    {<<1, 2, 3, 4, 5>>, <<1, 2, 3, 4>>, <<2, 4, 6, 8>>, <<1, 2, 2, 3, 4>>,
     <<1, 2, 3>>, <<1, 2>>, <<3>>}
NewInputs == {10, 7, 6}

PolyValue(p, x) == p[1] + p[2] * x + p[3] * x * x + p[4] * x * x * x

RECURSIVE SampleRows(_, _)
SampleRows(p, xs) ==
    IF xs = <<>> THEN <<>>
    ELSE save_interaction(SampleRows(p, SubSeq(xs, 1, Len(xs) - 1)),
                          xs[Len(xs)], PolyValue(p, xs[Len(xs)]),
                          PolyValue(p, xs[Len(xs)]), 1, FALSE)

FitInit ==
    /\ pc = "api"
    /\ model = MLModel
    /\ log = <<>>
    /\ files = [path \in Paths |-> NoFile]
    /\ stats = NoStats
    /\ round = NoRound

FitRetrain ==
    \E p \in Polynomials, xs \in SampleInputs :
        /\ pc = "api"
        /\ log' = SampleRows(p, xs)
        /\ model' = batch_retrain(model, get_all_interactions(log'))
        /\ round' = NoRound
        /\ UNCHANGED <<pc, files, stats>>

FitEvaluate ==
    \E x \in NewInputs :
        /\ pc = "api"
        /\ model.is_fitted
        /\ round' = [number |-> x,
                     prediction |-> Round(ModelPredict(model.fit, x)),
                     is_exploration |-> FALSE]
        /\ UNCHANGED <<pc, model, log, files, stats>>

SpecFit == FitInit /\ [][FitRetrain \/ FitEvaluate]_vars

(***************************************************************************)
(* The session: NumberLearningApp                                          *)
(***************************************************************************)
\* the cadence of the main loop
RetrainEvery == 10
SaveEvery == 5

\* what is typed at a prompt: an integer literal, or text that int() rejects
IntEntry(n) == [int |-> TRUE, value |-> n]
TextEntry == [int |-> FALSE, value |-> 0]

\* the value None of a prompt or a validation
NoNumber == [ok |-> FALSE, number |-> 0]

\* variant of the validation that lets zero through
validate_number_input_NonNegative(entry) ==
    IF ~entry.int THEN NoNumber
    ELSE IF entry.value < 0 THEN NoNumber
    ELSE [ok |-> TRUE, number |-> entry.value]

\* NumberLearningApp._validate_number_input, and the same test in
\* _training_mode
validate_number_input(entry) ==
    IF ~entry.int THEN NoNumber
    ELSE IF entry.value <= 0 THEN NoNumber
    ELSE [ok |-> TRUE, number |-> entry.value]

\* UI.get_expected_output
get_expected_output(entry) ==
    IF ~entry.int THEN NoNumber
    ELSE IF entry.value > 0 THEN [ok |-> TRUE, number |-> entry.value]
    ELSE NoNumber

\* entries, draws and corrected answers of session runs
SessionInputs == {IntEntry(1), IntEntry(0), IntEntry(-1), TextEntry}
SessionDraws == Draws({999999}, {2}, {}, {}, {})
SnapshotDraws == Draws({0, 999999}, {2}, {}, {}, {})
SessionAnswers == {IntEntry(3), IntEntry(0), IntEntry(-3), TextEntry}

\* NumberLearningApp.__init__ and the start of run: a new engine, replaced
\* by the default snapshot when it exists and loads
load_existing_model(fs) ==
    IF fs[DefaultPath].exists /\ load_model(fs).ok
    THEN load_model(fs).model
    ELSE MLModel

Init ==
    /\ pc = "prompt"
    /\ model = MLModel
    /\ log = <<>>
    /\ files = [path \in Paths |-> NoFile]
    /\ stats = NoStats
    /\ round = NoRound

\* the process is gone: its memory is no longer part of the state
Exited ==
    /\ pc' = "exited"
    /\ model' = MLModel
    /\ stats' = NoStats
    /\ round' = NoRound

\* a new process: __init__, the welcome screen, the first prompt
Start ==
    /\ pc = "exited"
    /\ pc' = "prompt"
    /\ model' = load_existing_model(files)
    /\ stats' = NoStats
    /\ round' = NoRound
    /\ UNCHANGED <<log, files>>

\* main loop, steps 1-4: an entry that validates is predicted; any other
\* entry goes to _handle_command, which knows no such command
InputNumber(inputs, draws) ==
    \E entry \in inputs, d \in draws :
        LET number == validate_number_input(entry).number
            res == predict(model, number, d)
        IN
        /\ pc = "prompt"
        /\ IF validate_number_input(entry).ok
           THEN /\ pc' = "feedback"
                /\ model' = res.model
                /\ round' = [number |-> number, prediction |-> res.output,
                             is_exploration |-> res.was_exploration]
           ELSE UNCHANGED <<pc, model, round>>
        /\ UNCHANGED <<log, files, stats>>

\* variant of the round's end that saves the snapshot before the retrain
FeedbackStep_SaveFirst(answers, maxLog, maxCount, maxSession) ==
    \E feedback \in {"like", "dislike"}, answer \in answers :
        LET feedback_value == IF feedback = "like" THEN 1 ELSE 0
            expected_output ==
                IF feedback = "dislike" /\ get_expected_output(answer).ok
                THEN get_expected_output(answer).number
                ELSE round.prediction
            rows == save_interaction(log, round.number, round.prediction,
                                     expected_output, feedback_value,
                                     round.is_exploration)
            updated == update(model, round.number, expected_output, feedback_value)
            st == update_session(stats, feedback_value)
            retrained ==
                IF st.session_interactions % RetrainEvery = 0
                THEN batch_retrain(updated, get_all_interactions(rows))
                ELSE updated
        IN
        /\ pc = "feedback"
        /\ feedback = "like" => answer = TextEntry
        /\ Len(log) < maxLog
        /\ model.epsilon > Aged(MLModel, maxCount, 0).epsilon
        /\ stats.session_interactions < maxSession
        /\ pc' = "prompt"
        /\ log' = rows
        /\ model' = retrained
        /\ stats' = st
        /\ files' = IF st.session_interactions % SaveEvery = 0
                    THEN save_model(files, updated)
                    ELSE files
        /\ round' = NoRound

\* main loop, steps 5-12: feedback is given and the round is recorded, in a
\* session bounded by maxLog records, maxCount updates and maxSession rounds
FeedbackStep(answers, maxLog, maxCount, maxSession) ==
    \E feedback \in {"like", "dislike"}, answer \in answers :
        LET feedback_value == IF feedback = "like" THEN 1 ELSE 0
            expected_output ==
                IF feedback = "dislike" /\ get_expected_output(answer).ok
                THEN get_expected_output(answer).number
                ELSE round.prediction
            rows == save_interaction(log, round.number, round.prediction,
                                     expected_output, feedback_value,
                                     round.is_exploration)
            updated == update(model, round.number, expected_output, feedback_value)
            st == update_session(stats, feedback_value)
            retrained ==
                IF st.session_interactions % RetrainEvery = 0
                THEN batch_retrain(updated, get_all_interactions(rows))
                ELSE updated
        IN
        /\ pc = "feedback"
        /\ feedback = "like" => answer = TextEntry
        /\ Len(log) < maxLog
        /\ model.epsilon > Aged(MLModel, maxCount, 0).epsilon
        /\ stats.session_interactions < maxSession
        /\ pc' = "prompt"
        /\ log' = rows
        /\ model' = retrained
        /\ stats' = st
        /\ files' = IF st.session_interactions % SaveEvery = 0
                    THEN save_model(files, retrained)
                    ELSE files
        /\ round' = NoRound

Feedback(answers) == FeedbackStep(answers, MaxLog, MaxCount, MaxSession)

\* the feedback prompt is interrupted: the loop breaks, run's finally saves
AbandonRound ==
    /\ pc = "feedback"
    /\ files' = save_model(files, model)
    /\ Exited
    /\ UNCHANGED log

\* quit, or end of input at the main prompt: the loop breaks, finally saves
Quit ==
    /\ pc = "prompt"
    /\ files' = save_model(files, model)
    /\ Exited
    /\ UNCHANGED log

\* the process dies inside save_model or save_model_as, after open(path, 'wb')
\* truncated the file and before pickle.dump wrote the whole stream
KilledInSave(paths) ==
    \E path \in paths, written \in {0, Len(Fields) - 1} :
        /\ pc = "prompt"
        /\ files' = [files EXCEPT ![path] =
                        [exists |-> TRUE,
                         data |-> SubSeq(pickle_dump(model), 1, written)]]
        /\ Exited
        /\ UNCHANGED log

\* variant of reset that also starts a new engine, as the reset of
\* auto-training does
CmdReset_NewEngine ==
    \E confirmed \in BOOLEAN :
        /\ pc = "prompt"
        /\ log' = IF confirmed THEN <<>> ELSE log
        /\ stats' = IF confirmed THEN NoStats ELSE stats
        /\ model' = IF confirmed THEN MLModel ELSE model
        /\ UNCHANGED <<pc, files, round>>

\* reset: _reset_data_only when confirmed
CmdReset ==
    \E confirmed \in BOOLEAN :
        /\ pc = "prompt"
        /\ log' = IF confirmed THEN <<>> ELSE log
        /\ stats' = IF confirmed THEN NoStats ELSE stats
        /\ UNCHANGED <<pc, model, files, round>>

\* _retrain_model: the engine after the retrain and the files after the save
retrain_model(m, rows, fs) ==
    LET retrained == batch_retrain(m, get_all_interactions(rows)) IN
    [model |-> retrained, files |-> save_model(fs, retrained)]

\* retrain
CmdRetrain ==
    /\ pc = "prompt"
    /\ model' = retrain_model(model, log, files).model
    /\ files' = retrain_model(model, log, files).files
    /\ UNCHANGED <<pc, log, stats, round>>

\* _undo_last_interaction on a non-empty table: the engine after it
undo_counters(m, deleted) ==
    [m EXCEPT !.interaction_count = Max(0, @ - 1),
              !.positive_feedback_count =
                  IF deleted.feedback_value > 0 THEN Max(0, @ - 1) ELSE @]

\* variant of _undo_last_interaction without the early return on an empty
\* table
undo_last_interaction_NoGuard(m, rows, fs) ==
    LET done == retrain_model(m, delete_last_interaction(rows), fs) IN
    [model |-> [done.model EXCEPT !.interaction_count = Max(0, @ - 1)],
     log |-> delete_last_interaction(rows),
     files |-> done.files,
     error |-> FALSE]

\* _undo_last_interaction: the engine, the table and the files after it, and
\* whether it reported an error
undo_last_interaction(m, rows, fs) ==
    IF rows = <<>>
    THEN [model |-> m, log |-> rows, files |-> fs, error |-> TRUE]
    ELSE LET deleted == rows[Len(rows)]
             done == retrain_model(m, delete_last_interaction(rows), fs)
         IN  [model |-> undo_counters(done.model, deleted),
              log |-> delete_last_interaction(rows),
              files |-> done.files,
              error |-> FALSE]

\* undo
CmdUndo ==
    /\ pc = "prompt"
    /\ model' = undo_last_interaction(model, log, files).model
    /\ log' = undo_last_interaction(model, log, files).log
    /\ files' = undo_last_interaction(model, log, files).files
    /\ UNCHANGED <<pc, stats, round>>

\* variant of _create_new_model that carries the exploration rate over
create_new_model_KeepsEpsilon(m, confirmed) ==
    IF confirmed THEN [MLModel EXCEPT !.epsilon = m.epsilon] ELSE m

\* _create_new_model: the engine after it
create_new_model(m, confirmed) == IF confirmed THEN MLModel ELSE m

\* new_model
CmdNewModel ==
    \E confirmed \in BOOLEAN :
        /\ pc = "prompt"
        /\ model' = create_new_model(model, confirmed)
        /\ UNCHANGED <<pc, log, files, stats, round>>

\* save_model; the empty name stands for a cancelled prompt
CmdSaveModel ==
    \E model_name \in ModelNames \cup {<<>>} :
        /\ pc = "prompt"
        /\ files' = IF model_name = <<>> THEN files
                    ELSE save_model_as(files, model, model_name)
        /\ UNCHANGED <<pc, model, log, stats, round>>

\* load_model
CmdLoadModel ==
    \E model_name \in ModelNames \cup {<<>>} :
        /\ pc = "prompt"
        /\ model' = IF model_name # <<>> /\ load_model_by_name(files, model_name).ok
                    THEN load_model_by_name(files, model_name).model
                    ELSE model
        /\ UNCHANGED <<pc, log, files, stats, round>>

\* one installation over any number of processes: the main loop and the
\* commands that touch the table, the engine and the default snapshot
Next ==
    \/ Start
    \/ InputNumber(SessionInputs, SessionDraws)
    \/ Feedback(SessionAnswers)
    \/ AbandonRound
    \/ Quit
    \/ KilledInSave({DefaultPath})
    \/ CmdReset
    \/ CmdRetrain
    \/ CmdUndo
    \/ CmdNewModel

Spec == Init /\ [][Next]_vars

\* one process that only plays rounds, long enough to pass the tenth round
MaxCadence == 11
CadenceInputs == {IntEntry(1)}
CadenceAnswers == {TextEntry}
CadenceFeedback == FeedbackStep(CadenceAnswers, MaxCadence, MaxCadence, MaxCadence)
CadenceNext ==
    \/ InputNumber(CadenceInputs, SessionDraws)
    \/ CadenceFeedback
    \/ Quit

SpecCadence == Init /\ [][CadenceNext]_vars

\* run, with the end of the session in two steps: the loop is left (break, or
\* an exception on its way to run's handlers), then the finally clause runs.
\* the loop breaks: quit, or None from get_user_input
LoopBreak ==
    /\ pc = "prompt"
    /\ pc' = "finally"
    /\ UNCHANGED <<model, log, files, stats, round>>

\* the loop breaks: None from get_feedback
FeedbackBreak ==
    /\ pc = "feedback"
    /\ pc' = "finally"
    /\ UNCHANGED <<model, log, files, stats, round>>

\* Ctrl+C inside a command: at the prompt of confirm_reset, in _retrain_model
\* between batch_retrain and save_model, in _undo_last_interaction after
\* delete_last_interaction, and after its _retrain_model
InterruptedCommand ==
    \E at \in {"confirm_reset", "retrain", "undo_deleted", "undo_retrained"} :
        /\ pc = "prompt"
        /\ at \in {"undo_deleted", "undo_retrained"} => log # <<>>
        /\ pc' = "finally"
        /\ log' = IF at \in {"undo_deleted", "undo_retrained"}
                  THEN delete_last_interaction(log) ELSE log
        /\ model' = IF at \in {"retrain", "undo_retrained"}
                    THEN batch_retrain(model, get_all_interactions(log'))
                    ELSE model
        /\ files' = IF at = "undo_retrained" THEN save_model(files, model')
                    ELSE files
        /\ UNCHANGED <<stats, round>>

\* variant of run whose end does not save
Finally_NoSave ==
    /\ pc = "finally"
    /\ Exited
    /\ UNCHANGED <<log, files>>

\* run's finally clause: save_model, the goodbye screen, the process ends
Finally ==
    /\ pc = "finally"
    /\ files' = save_model(files, model)
    /\ Exited
    /\ UNCHANGED log

ExitNext ==
    \/ Start
    \/ InputNumber(SessionInputs, SessionDraws)
    \/ Feedback(SessionAnswers)
    \/ CmdRetrain
    \/ CmdNewModel
    \/ LoopBreak
    \/ FeedbackBreak
    \/ InterruptedCommand
    \/ Finally

SpecExit == Init /\ [][ExitNext]_vars

\* one process with named snapshots: rounds, retrain, undo, save_model and
\* load_model
SnapshotNext ==
    \/ InputNumber(SessionInputs, SnapshotDraws)
    \/ Feedback(SessionAnswers)
    \/ CmdRetrain
    \/ CmdUndo
    \/ CmdSaveModel
    \/ CmdLoadModel

SpecSnapshots == Init /\ [][SnapshotNext]_vars

\* one pass of the loop of _training_mode over the typed examples, each an
\* (input entry, output entry) pair; st holds the engine, the table, the
\* session statistics, the files and training_count
RECURSIVE training_loop(_, _)
training_loop(st, examples) ==
    IF examples = <<>> THEN st
    ELSE LET user_input == validate_number_input(Head(examples)[1])
             user_output == validate_number_input(Head(examples)[2])
             updated == update(st.model, user_input.number, user_output.number, 1)
             count == st.training_count + 1
         IN  IF ~user_input.ok \/ ~user_output.ok
             THEN training_loop(st, Tail(examples))
             ELSE training_loop(
                      [model |-> updated,
                       log |-> save_interaction(st.log, user_input.number,
                                   user_output.number, user_output.number, 1, FALSE),
                       stats |-> update_session(st.stats, 1),
                       files |-> IF count % SaveEvery = 0
                                 THEN save_model(st.files, updated)
                                 ELSE st.files,
                       training_count |-> count],
                      Tail(examples))

\* _training_mode: the loop until 'stop', then the retrain on all records
training_mode(m, rows, st, fs, examples) ==
    LET done == training_loop([model |-> m, log |-> rows, stats |-> st,
                               files |-> fs, training_count |-> 0], examples)
        retrained == batch_retrain(done.model, get_all_interactions(done.log))
    IN  IF done.training_count > 0
        THEN [done EXCEPT !.model = retrained,
                          !.files = save_model(done.files, retrained)]
        ELSE done

\* the examples typed in one training mode: accepted pairs, and pairs with a
\* non-positive or non-integer input or output
TrainingEntries ==
    {<<IntEntry(1), IntEntry(2)>>, <<IntEntry(2), IntEntry(1)>>,
     <<IntEntry(0), IntEntry(2)>>, <<IntEntry(1), IntEntry(0)>>,
     <<IntEntry(-1), IntEntry(-1)>>, <<TextEntry, IntEntry(2)>>,
     <<IntEntry(1), TextEntry>>}
TrainingSessions ==
    {<<>>} \cup {<<e>> : e \in TrainingEntries}
           \cup {<<e1, e2>> : e1 \in TrainingEntries, e2 \in TrainingEntries}

\* train
CmdTrain ==
    \E examples \in TrainingSessions :
        LET done == training_mode(model, log, stats, files, examples) IN
        /\ pc = "prompt"
        /\ Len(done.log) <= MaxLog
        /\ done.model.interaction_count <= MaxCount
        /\ done.stats.session_interactions <= MaxSession
        /\ model' = done.model
        /\ log' = done.log
        /\ stats' = done.stats
        /\ files' = done.files
        /\ UNCHANGED <<pc, round>>

\* the auto-save cadence of auto-training and of testing mode
AutoSaveEvery == 20

\* the loop of _auto_training_mode over the generated examples, each a
\* (random_input, expected_output) pair; an expected_output that is not
\* positive stands for a result the loop skips (None or <= 0)
RECURSIVE auto_training_loop(_, _)
auto_training_loop(st, examples) ==
    IF examples = <<>> THEN st
    ELSE LET random_input == Head(examples)[1]
             expected_output == Head(examples)[2]
             updated == update(st.model, random_input, expected_output, 1)
             count == st.training_count + 1
         IN  IF expected_output <= 0
             THEN auto_training_loop(st, Tail(examples))
             ELSE auto_training_loop(
                      [model |-> updated,
                       log |-> save_interaction(st.log, random_input,
                                   expected_output, expected_output, 1, FALSE),
                       stats |-> update_session(st.stats, 1),
                       files |-> IF count % AutoSaveEvery = 0
                                 THEN save_model(st.files, updated)
                                 ELSE st.files,
                       training_count |-> count],
                      Tail(examples))

\* the state _auto_training_mode starts its loop from: after the reset block
\* when the reset is confirmed
auto_training_start(m, rows, st, fs, reset) ==
    IF reset
    THEN [model |-> MLModel, log |-> <<>>, stats |-> NoStats,
          files |-> delete_model(fs), training_count |-> 0]
    ELSE [model |-> m, log |-> rows, stats |-> st, files |-> fs,
          training_count |-> 0]

\* variant of _auto_training_mode that saves at its end without the retrain
auto_training_mode_NoRetrain(m, rows, st, fs, reset, examples) ==
    LET done == auto_training_loop(auto_training_start(m, rows, st, fs, reset),
                                   examples)
    IN  IF done.training_count > 0
        THEN [done EXCEPT !.files = save_model(done.files, done.model)]
        ELSE done

\* _auto_training_mode: the reset block, the loop, then the retrain on all
\* records; no examples stands for a prompt that returned None
auto_training_mode(m, rows, st, fs, reset, examples) ==
    LET done == auto_training_loop(auto_training_start(m, rows, st, fs, reset),
                                   examples)
        retrained == batch_retrain(done.model, get_all_interactions(done.log))
    IN  IF done.training_count > 0
        THEN [done EXCEPT !.model = retrained,
                          !.files = save_model(done.files, retrained)]
        ELSE done

\* the examples one auto-training generates
AutoExamples == {<<1, 2>>, <<2, 4>>, <<2, 0>>}
AutoSessions ==
    {<<>>} \cup {<<e>> : e \in AutoExamples}
           \cup {<<e1, e2>> : e1 \in AutoExamples, e2 \in AutoExamples}

\* auto_train, with the examples of one of the given sessions
AutoTrain(sessions) ==
    \E reset \in BOOLEAN, examples \in sessions :
        LET done == auto_training_mode(model, log, stats, files, reset, examples) IN
        /\ pc = "prompt"
        /\ Len(done.log) <= MaxLog
        /\ done.model.interaction_count <= MaxCount
        /\ done.model.epsilon >= Aged(MLModel, MaxCount, 0).epsilon
        /\ done.stats.session_interactions <= MaxSession
        /\ model' = done.model
        /\ log' = done.log
        /\ stats' = done.stats
        /\ files' = done.files
        /\ UNCHANGED <<pc, round>>

CmdAutoTrain == AutoTrain(AutoSessions)

\* one process with rounds of the main loop, training modes and auto-training
ModesNext ==
    \/ InputNumber(SessionInputs, SnapshotDraws)
    \/ Feedback(SessionAnswers)
    \/ CmdTrain
    \/ CmdAutoTrain

SpecModes == Init /\ [][ModesNext]_vars

\* one process with rounds of the main loop and every command that retrains
\* the engine or replaces it, in an installation where an earlier process
\* saved a new engine under the name "a"
LifecycleInit ==
    /\ pc = "prompt"
    /\ model = MLModel
    /\ log = <<>>
    /\ files = save_model_as([path \in Paths |-> NoFile], MLModel, <<"a">>)
    /\ stats = NoStats
    /\ round = NoRound

LifecycleNext ==
    \/ InputNumber(CadenceInputs, SessionDraws)
    \/ Feedback(CadenceAnswers)
    \/ CmdRetrain
    \/ CmdUndo
    \/ CmdReset
    \/ CmdNewModel
    \/ AutoTrain({<<>>, <<<<2, 4>>>>})
    \/ CmdLoadModel

SpecLifecycle == LifecycleInit /\ [][LifecycleNext]_vars

\* feedback_value of one test: like when the prediction is the answer
test_feedback(res, correct_answer) == IF res.output = correct_answer THEN 1 ELSE 0

\* one test of _testing_model_mode recorded: res is predict's result and
\* updated the engine after update
test_recorded(st, random_input, correct_answer, res, updated) ==
    [model |-> updated,
     log |-> save_interaction(st.log, random_input, res.output, correct_answer,
                 test_feedback(res, correct_answer), res.was_exploration),
     stats |-> update_session(st.stats, test_feedback(res, correct_answer)),
     files |-> IF (st.total_tests + 1) % AutoSaveEvery = 0
               THEN save_model(st.files, updated)
               ELSE st.files,
     total_tests |-> st.total_tests + 1]

\* one test of _testing_model_mode after predict returned res
test_predicted(st, random_input, correct_answer, res) ==
    test_recorded(st, random_input, correct_answer, res,
                  update(res.model, random_input, correct_answer,
                         test_feedback(res, correct_answer)))

\* the loop of _testing_model_mode over the generated tests, each a
\* (random_input, correct_answer, draws of predict) triple; a correct_answer
\* that is not positive stands for a result the loop skips
RECURSIVE testing_loop(_, _)
testing_loop(st, tests) ==
    IF tests = <<>> THEN st
    ELSE IF Head(tests)[2] <= 0 THEN testing_loop(st, Tail(tests))
    ELSE testing_loop(
             test_predicted(st, Head(tests)[1], Head(tests)[2],
                            predict(st.model, Head(tests)[1], Head(tests)[3])),
             Tail(tests))

\* variant of _testing_model_mode that retrains at its end, as the training
\* modes do
testing_model_mode_Retrains(m, rows, st, fs, tests) ==
    LET done == testing_loop([model |-> m, log |-> rows, stats |-> st,
                              files |-> fs, total_tests |-> 0], tests)
        retrained == batch_retrain(done.model, get_all_interactions(done.log))
    IN  IF done.total_tests > 0
        THEN [done EXCEPT !.model = retrained,
                          !.files = save_model(done.files, retrained)]
        ELSE done

\* _testing_model_mode: the loop, then the save; no tests stands for a prompt
\* that returned None
testing_model_mode(m, rows, st, fs, tests) ==
    LET done == testing_loop([model |-> m, log |-> rows, stats |-> st,
                              files |-> fs, total_tests |-> 0], tests)
    IN  IF done.total_tests > 0
        THEN [done EXCEPT !.files = save_model(done.files, done.model)]
        ELSE done

\* the tests one testing mode generates: answers the engine can and cannot
\* hit, and a skipped one
TestExamples == {<<1, 2>>, <<2, 4>>, <<2, 5>>, <<1, 0>>}
Tests == {<<e[1], e[2], d>> : e \in TestExamples, d \in SnapshotDraws}
TestSessions ==
    {<<>>} \cup {<<t>> : t \in Tests} \cup {<<t1, t2>> : t1 \in Tests, t2 \in Tests}

\* testing_model
CmdTestingModel ==
    \E tests \in TestSessions :
        LET done == testing_model_mode(model, log, stats, files, tests) IN
        /\ pc = "prompt"
        /\ Len(done.log) <= MaxLog
        /\ done.model.interaction_count <= MaxCount
        /\ done.stats.session_interactions <= MaxSession
        /\ model' = done.model
        /\ log' = done.log
        /\ stats' = done.stats
        /\ files' = done.files
        /\ UNCHANGED <<pc, round>>

\* one process with rounds of the main loop, retrain and testing modes
TestingNext ==
    \/ InputNumber(SessionInputs, SnapshotDraws)
    \/ Feedback(SessionAnswers)
    \/ CmdRetrain
    \/ CmdTestingModel

SpecTesting == Init /\ [][TestingNext]_vars

\* one process with rounds of the main loop and training modes
TrainingNext ==
    \/ InputNumber(SessionInputs, SnapshotDraws)
    \/ Feedback(SessionAnswers)
    \/ CmdTrain

SpecTraining == Init /\ [][TrainingNext]_vars

\* processes that are killed while saving, under either command, and the
\* processes started after them
RecoveryNext ==
    \/ Start
    \/ InputNumber(SessionInputs, SessionDraws)
    \/ Feedback(SessionAnswers)
    \/ Quit
    \/ KilledInSave(Paths)
    \/ CmdSaveModel
    \/ CmdLoadModel

SpecRecovery == Init /\ [][RecoveryNext]_vars

(***************************************************************************)
(* Properties                                                              *)
(***************************************************************************)
info == model.last_prediction_info

\* a step of predict, seen from outside: it sets the returned pair or the trace
PredictStep == round' # round \/ model'.last_prediction_info # info

\* C1: in every state reachable by session operations the counters satisfy
\* 0 <= positive_feedback_count <= interaction_count.
C1_CounterConsistency ==
    /\ 0 <= model.positive_feedback_count
    /\ model.positive_feedback_count <= model.interaction_count

\* C2: the output returned by predict lies in [1, output_range.max] on every
\* branch (exploration, low-confidence fallback, rounded model value).
C2_ClampCorrectness ==
    round # NoRound =>
        /\ 1 <= round.prediction
        /\ round.prediction <= model.output_range[2]

\* C3: on one engine instance epsilon never increases, stays within
\* [epsilon_min, epsilon_start], and changes only in update, which sets it to
\* max(epsilon_min, epsilon * epsilon_decay).
C3_EpsilonMonotone ==
    /\ [](model.epsilon_min <= model.epsilon /\ model.epsilon <= EpsilonStart)
    /\ [][/\ model'.epsilon <= model.epsilon
          /\ model'.epsilon # model.epsilon =>
                /\ model'.interaction_count = model.interaction_count + 1
                /\ model'.epsilon =
                       Max(model.epsilon_min,
                           (model.epsilon * model.epsilon_decay) \div Percent)]_vars

\* the floor was reached and a later update kept epsilon there
C3_Witness ==
    /\ model.epsilon = model.epsilon_min
    /\ model.interaction_count >= 33

\* C4: while is_fitted is false every predict call returns
\* was_exploration = true with a heuristic-generator output, whatever the
\* epsilon draw, epsilon and the counters are.
C4_UnfittedExplores ==
    [][(~model.is_fitted /\ PredictStep) =>
          /\ round'.is_exploration
          /\ model'.last_prediction_info.mode = "exploration"
          /\ \E d \in EngineDraws :
                round'.prediction = get_exploration_output(model, round'.number, d)]_vars

\* an unfitted engine predicted with a draw that did not select exploration
C4_Witness ==
    /\ ~model.is_fitted
    /\ round # NoRound
    /\ round.is_exploration
    /\ info.mode = "exploration"
    /\ info.reason = "nodata"

\* C5: a fitted engine whose draw selects exploitation returns exactly
\* 2 * input with was_exploration = false when positive_feedback_count < 5
\* and the raw model value is below 0.3 * input; with
\* positive_feedback_count >= 5 the fallback is never taken.
C5_LowConfidenceGuard ==
    [][(PredictStep /\ model'.last_prediction_info.mode = "exploitation") =>
          LET raw == model'.last_prediction_info.raw_prediction
              below == 10 * raw[1] < 3 * round'.number * raw[2]
              fallback == model'.last_prediction_info.reason = "heuristic"
          IN  /\ (below /\ model.positive_feedback_count < 5) =>
                    /\ fallback
                    /\ round'.prediction = 2 * round'.number
                    /\ ~round'.is_exploration
              /\ model.positive_feedback_count >= 5 => ~fallback]_vars

\* the fallback answered a prediction
C5_Witness ==
    /\ info.mode = "exploitation"
    /\ info.reason = "heuristic"
    /\ model.positive_feedback_count < 5
    /\ round.prediction = 2 * round.number
    /\ ~round.is_exploration

\* C6: after undo the fitted function and the fitted flag equal those of a
\* new engine after one batch_retrain over the remaining records, whatever
\* the table holds, a table without a positive record included.
C6_UndoEqualsFreshFit ==
    [][Len(log') < Len(log) =>
          LET fresh == batch_retrain(MLModel, get_all_interactions(log'))
          IN  /\ model'.fit = fresh.fit
              /\ model'.is_fitted = fresh.is_fitted]_vars

C8_AtomicSave ==
    [][\A path \in Paths :
          (files[path].exists /\ Loadable(files[path].data)) =>
              (files'[path].exists /\ Loadable(files'[path].data))]_vars

\* C9: update leaves is_fitted and the fitted function unchanged for every
\* input, expected output and feedback value; the fitted function changes
\* only inside batch_retrain.
C9_UpdateKeepsFit ==
    [][/\ model'.interaction_count # model.interaction_count =>
             /\ model'.fit = model.fit
             /\ model'.is_fitted = model.is_fitted
       /\ (model'.fit # model.fit \/ model'.is_fitted # model.is_fitted) =>
             \E interactions \in TrainLists :
                 model' = [model EXCEPT
                              !.fit = Fit(TrainingPairs(interactions)),
                              !.is_fitted = TRUE]]_vars

\* a fitted engine that exploited was updated afterwards and is still fitted
C9_Witness ==
    /\ model.is_fitted
    /\ info.mode = "exploitation"
    /\ model.epsilon < info.epsilon

\* C10: predict leaves interaction_count, positive_feedback_count, epsilon,
\* is_fitted and the fitted function unchanged on both paths; the only
\* engine field it writes is the last decision trace.
C10_PredictFrame ==
    [][PredictStep =>
          [model' EXCEPT !.last_prediction_info = info] = model]_vars

\* predict ran on the exploitation path of an engine that had been updated
C10_Witness ==
    /\ info.mode = "exploitation"
    /\ ~round.is_exploration
    /\ model.interaction_count > 0
    /\ info.epsilon = model.epsilon

\* the records of a list with feedback_value > 0, written out
Accepted(interactions) == SelectSeq(interactions, LAMBDA t : t[3] > 0)

\* C11: batch_retrain with a list that is empty or holds no record with
\* feedback_value > 0 leaves is_fitted and the fitted function unchanged;
\* with at least one such record it leaves is_fitted = TRUE; in both cases
\* the counters and epsilon are unchanged.
C11_BatchRetrainFrame ==
    /\ [](\A interactions \in TrainLists :
            LET after == batch_retrain(model, interactions) IN
            /\ Accepted(interactions) = <<>> =>
                  /\ after.fit = model.fit
                  /\ after.is_fitted = model.is_fitted
            /\ Accepted(interactions) # <<>> => after.is_fitted
            /\ after.interaction_count = model.interaction_count
            /\ after.positive_feedback_count = model.positive_feedback_count
            /\ after.epsilon = model.epsilon)
    /\ [][(model'.fit # model.fit \/ model'.is_fitted # model.is_fitted) =>
             /\ model'.is_fitted
             /\ model'.interaction_count = model.interaction_count
             /\ model'.positive_feedback_count = model.positive_feedback_count
             /\ model'.epsilon = model.epsilon]_vars

\* an engine with counted interactions and a decayed epsilon was fitted on
\* two records
C11_Witness ==
    /\ model.is_fitted
    /\ Len(model.fit) = 2
    /\ model.interaction_count > 30
    /\ model.positive_feedback_count > 4
    /\ model.epsilon < EpsilonStart

\* rejected records, with corrected values, put in front of or behind a list
RejectedRecords == {<<1, OutputMax, 0>>, <<2, 1, 0>>, <<3, 7, 0>>}

C13_OnlyUndoRemoves ==
    [][Len(log') < Len(log) =>
          LET retrained == batch_retrain(model, get_all_interactions(log'))
          IN  /\ log' = SubSeq(log, 1, Len(log) - 1)
              /\ model'.fit = retrained.fit
              /\ model'.is_fitted = retrained.is_fitted]_vars

\* C14: after a confirmed new_model the engine is unfitted with
\* interaction_count = 0, positive_feedback_count = 0, epsilon =
\* epsilon_start and no decision trace; when the confirmation is declined
\* the engine is unchanged.
C14_NewModelIsUnfit ==
    /\ [](LET created == create_new_model(model, TRUE) IN
            /\ ~created.is_fitted
            /\ created.fit = <<>>
            /\ created.interaction_count = 0
            /\ created.positive_feedback_count = 0
            /\ created.epsilon = EpsilonStart
            /\ created.last_prediction_info = NoInfo
            /\ create_new_model(model, FALSE) = model)
    /\ [][(/\ pc = "prompt" /\ pc' = "prompt" /\ log' = log
           /\ model.interaction_count > 0
           /\ model'.interaction_count = 0) =>
             /\ ~model'.is_fitted
             /\ model'.fit = <<>>
             /\ model'.positive_feedback_count = 0
             /\ model'.epsilon = EpsilonStart
             /\ model'.last_prediction_info = NoInfo]_vars

\* new_model was confirmed in a process that had recorded rounds
C14_Witness ==
    /\ pc = "prompt"
    /\ stats.session_interactions > 0
    /\ log # <<>>
    /\ model.interaction_count = 0
    /\ ~model.is_fitted
    /\ model.epsilon = EpsilonStart
    /\ info = NoInfo

\* whether the 0.3x guard of predict can fire on engine m
GuardActive(m) == m.is_fitted /\ m.positive_feedback_count < 5

\* C15: a fitted engine passes from the state where the 0.3x guard can fire
\* to the state where it cannot only at a batch_retrain performed while
\* positive_feedback_count >= 5; no update step changes whether the guard
\* is active.
C15_GuardChangesAtRetrain ==
    [][/\ (model.is_fitted /\ GuardActive(model) /\ model'.is_fitted
           /\ ~GuardActive(model')) =>
              /\ model.positive_feedback_count >= 5
              /\ model'.interaction_count = model.interaction_count
       /\ (model.is_fitted /\ model'.interaction_count # model.interaction_count) =>
              GuardActive(model') = GuardActive(model)]_vars

\* C16: get_explanation returns the 'no prior decision' text on an engine on
\* which predict was never called, after any update and batch_retrain
\* calls; after a predict call it renders the trace of the most recent
\* predict and never that text.
C16_ExplanationFollowsPredict ==
    /\ [](IF round = NoRound
          THEN get_explanation(model) = NoExplanation
          ELSE /\ get_explanation(model) # NoExplanation
               /\ get_explanation(model).mode =
                      IF round.is_exploration THEN "exploration" ELSE "exploitation")
    /\ [][IF PredictStep
          THEN /\ get_explanation(model').epsilon = FormatPercent(model.epsilon)
               /\ get_explanation(model').mode = "exploitation" =>
                      get_explanation(model').raw_prediction =
                          FormatHundredths(ModelPredict(model.fit, round'.number))
          ELSE get_explanation(model') = get_explanation(model)]_vars

\* the explanation still renders an exploration made before the engine was
\* updated and fitted
C16_Witness ==
    /\ round # NoRound
    /\ get_explanation(model).mode = "exploration"
    /\ get_explanation(model).epsilon > FormatPercent(model.epsilon)
    /\ model.is_fitted

\* whether the file at a path is missing or holds no whole object
Unreadable(path) == ~files[path].exists \/ ~Loadable(files[path].data)

\* C17: when a snapshot is missing or cannot be deserialized, load_model and
\* load_model_by_name return the failure value; the load_model command then
\* leaves the engine in memory unchanged, and start-up continues with a new
\* engine.
C17_FailedLoadIsHarmless ==
    /\ [](/\ Unreadable(DefaultPath) => ~load_model(files).ok
          /\ \A model_name \in ModelNames :
                Unreadable(NamedPath(model_name)) =>
                    ~load_model_by_name(files, model_name).ok)
    /\ [][/\ (pc = "prompt" /\ pc' = "prompt" /\ log' = log
              /\ \A model_name \in ModelNames :
                    Unreadable(NamedPath(model_name))) =>
                 model' = model
          /\ (pc = "exited" /\ pc' = "prompt" /\ Unreadable(DefaultPath)) =>
                 model' = MLModel]_vars

\* a process started with a new engine over a table with records, because
\* no snapshot on disk can be read
C17_Witness ==
    /\ pc = "prompt"
    /\ log # <<>>
    /\ model = MLModel
    /\ \A path \in Paths : files[path].exists /\ Unreadable(path)

\* C18: in the main loop and in training mode predict and update are never
\* called with an input < 1, and update never with an expected output < 1:
\* an entry that is not a positive integer is rejected before any engine
\* call and before any record is written.
C18_OnlyPositiveReachEngine ==
    /\ [](/\ round # NoRound => round.number >= 1
          /\ \A i \in 1..Len(log) :
                /\ log[i].user_input >= 1
                /\ log[i].expected_output >= 1
          /\ model.interaction_count = Len(log))
    /\ [][model'.interaction_count # model.interaction_count =>
             /\ Len(log') > Len(log)
             /\ model'.interaction_count - model.interaction_count
                   = Len(log') - Len(log)]_vars

\* a training mode recorded an example, and a round of the main loop whose
\* correction was not positive recorded the prediction instead
C18_Witness ==
    /\ Len(log) = 2
    /\ \E i \in 1..Len(log) : ~log[i].exploration /\ log[i].feedback_value > 0
                               /\ log[i].model_output = log[i].expected_output
                               /\ log[i].user_input = 2
    /\ \E i \in 1..Len(log) : log[i].feedback_value = 0
                               /\ log[i].expected_output = log[i].model_output

C20_EpsilonReachesFloor ==
    /\ <>[](model.epsilon = model.epsilon_min)
    /\ [][model.epsilon = model.epsilon_min =>
             model'.epsilon = model.epsilon_min]_vars

\* the slowest engine reached its floor and was updated again
C20_Witness ==
    /\ model.epsilon_decay = 95
    /\ model.epsilon = model.epsilon_min
    /\ model.interaction_count > 43

\* C21: for every input >= 1 and every choice of strategy, factor, offset
\* and sign the heuristic generator returns an integer in
\* [1, output_range.max]; it never raises.
C21_GeneratorTotal ==
    /\ pc # "raised"
    /\ round # NoRound =>
          /\ 1 <= round.prediction
          /\ round.prediction <= model.output_range[2]

\* C22: a confirmed reset empties the table and restarts the session
\* statistics, and leaves every field of the engine in memory and the
\* snapshot files unchanged.
C22_ResetKeepsEngine ==
    [][(/\ pc = "prompt" /\ pc' = "prompt"
        /\ \/ stats # NoStats /\ stats' = NoStats
           \/ Len(log) >= 2 /\ log' = <<>>) =>
          /\ log' = <<>>
          /\ stats' = NoStats
          /\ model' = model
          /\ files' = files]_vars

\* the table is empty while the engine still counts two interactions and
\* is fitted, and a snapshot is on disk
C22_Witness ==
    /\ pc = "prompt"
    /\ log = <<>>
    /\ stats = NoStats
    /\ model.interaction_count = 2
    /\ model.is_fitted
    /\ files[DefaultPath].exists

\* the inputs of the records in the table
LoggedInputs == {log[i].user_input : i \in 1..Len(log)}

\* whether every record in the table is a liked exact sample of p
SamplesOf(p) ==
    \A i \in 1..Len(log) :
        /\ log[i].feedback_value > 0
        /\ log[i].expected_output = PolyValue(p, log[i].user_input)

C24_Cadence ==
    [][(pc = "feedback" /\ pc' = "prompt") =>
          LET n == stats'.session_interactions
              last == log'[Len(log')]
              updated == update(model, last.user_input, last.expected_output,
                                last.feedback_value)
          IN  /\ n = stats.session_interactions + 1
              /\ n % RetrainEvery = 0 =>
                    model' = batch_retrain(updated, get_all_interactions(log'))
              /\ n % RetrainEvery # 0 => model' = updated
              /\ n % SaveEvery = 0 => files' = save_model(files, model')
              /\ n % SaveEvery # 0 => files' = files]_vars
C24_Witness == pc = "prompt" /\ stats.session_interactions = 10 /\ model.is_fitted /\ files[DefaultPath].exists /\ pickle_load(files[DefaultPath].data).is_fitted

\* C25: however the session ends (quit, end of input, an interrupt at a
\* prompt or inside a command), the process exits only through run's finally
\* clause, which writes the engine in memory to the default snapshot once.
C25_ExitSaves ==
    [][(pc # "exited" /\ pc' = "exited") =>
          /\ pc = "finally"
          /\ files' = save_model(files, model)
          /\ files'[DefaultPath].data = pickle_dump(model)
          /\ log' = log]_vars
C25_Witness == pc = "exited" /\ files[DefaultPath].exists /\ Loadable(files[DefaultPath].data) /\ pickle_load(files[DefaultPath].data).is_fitted /\ pickle_load(files[DefaultPath].data).interaction_count = 2 /\ Len(log) = 1

C28_UndoOnEmpty ==
    (pc = "prompt" /\ log = <<>>) =>
        undo_last_interaction(model, log, files) =
            [model |-> model, log |-> <<>>, files |-> files, error |-> TRUE]
C28_Witness == pc = "prompt" /\ log = <<>> /\ model.is_fitted /\ model.interaction_count = 1 /\ model.positive_feedback_count = 1 /\ files[DefaultPath].exists

\* C29: when undo completes on a non-empty table, the default snapshot holds
\* the interaction_count and positive_feedback_count of the engine in memory.
C29_UndoSnapshotCounters ==
    (pc = "prompt" /\ log # <<>>) =>
        LET undone == undo_last_interaction(model, log, files)
            saved == pickle_load(undone.files[DefaultPath].data)
        IN  /\ saved.interaction_count = undone.model.interaction_count
            /\ saved.positive_feedback_count = undone.model.positive_feedback_count

\* C30: a fitted engine stays fitted under predict, update, batch_retrain,
\* undo and reset; the session's engine goes from fitted to unfitted only
\* when the instance is replaced: by new_model, by the reset of
\* auto-training, or by loading an unfitted snapshot.
C30_FittedStaysFitted ==
    [][(model.is_fitted /\ ~model'.is_fitted) =>
          /\ pc = "prompt"
          /\ \/ model' = MLModel /\ UNCHANGED <<log, files, stats>>
             \/ /\ model' = MLModel
                /\ log' = <<>>
                /\ stats' = NoStats
                /\ files' = delete_model(files)
             \/ /\ \E model_name \in ModelNames :
                       /\ load_model_by_name(files, model_name).ok
                       /\ model' = load_model_by_name(files, model_name).model
                /\ UNCHANGED <<log, files, stats>>]_vars
C30_Witness == pc = "prompt" /\ model.is_fitted /\ log = <<>> /\ model.interaction_count = 0 /\ stats.session_interactions = 2 /\ files[DefaultPath].exists

====
